---- MODULE Spec2Model ----
(***************************************************************************)
(* Model of the event manager (src/main.py): the handlers that map a       *)
(* request dictionary to one call on the Supabase store and normalise the  *)
(* store's answer, and the HTTP entry points in front of them.             *)
(*                                                                         *)
(* The program keeps no state between requests.  The state of the model is *)
(* one invocation: which function was entered, with which request, what    *)
(* the store answered, which store calls were made, and what came back.    *)
(*                                                                         *)
(* A second specification, RaceSpec, runs two update_event invocations     *)
(* side by side against one row of the events table (`table`), each with   *)
(* its own position and locals (`inv`).                                    *)
(***************************************************************************)
EXTENDS Integers, Sequences, FiniteSets, TLC

VARIABLES pc, op, request, store, calls, result, response, table, inv

vars == <<pc, op, request, store, calls, result, response, table, inv>>

(***************************************************************************)
(* Bounds of the model.                                                    *)
(***************************************************************************)
\* longest row list the store returns
MaxRows == 2
\* largest attributes dictionary of a request
MaxAttrs == 2

(***************************************************************************)
(* Python values.  Every value carries its type, so that truthiness, None  *)
(* and the empty string stay distinct.                                     *)
(***************************************************************************)
PyNone == [t |-> "NoneType"]
PyStr(s) == [t |-> "str", s |-> s]
PyBool(b) == [t |-> "bool", b |-> b]
\* a list, items in order
PyList(items) == [t |-> "list", items |-> items]
\* a dict as the sequence of its <<key, value>> items in insertion order
PyDict(items) == [t |-> "dict", items |-> items]
\* a row of the store: a dict whose order the program never looks at
PyRow(f) == [t |-> "row", f |-> f]

\* bool(v)
Truthy(v) ==
    CASE v.t = "NoneType" -> FALSE
      [] v.t = "str" -> v.s # ""
      [] v.t = "bool" -> v.b
      [] v.t = "list" -> Len(v.items) > 0
      [] v.t = "dict" -> Len(v.items) > 0
      [] v.t = "row" -> DOMAIN v.f # {}

\* s2 in s1 (substring test on str)
Contains(s, m) ==
    \E i \in 1..(Len(s) - Len(m) + 1) : SubSeq(s, i, i + Len(m) - 1) = m

\* the keys of a dict, and d[k] for a key it has
DictKeys(d) == {d.items[i][1] : i \in 1..Len(d.items)}
DictGet(d, k) == LET i == CHOOSE j \in 1..Len(d.items) : d.items[j][1] = k
                 IN d.items[i][2]

\* row.get(k): None when the row has no such column
RowGet(row, k) == IF k \in DOMAIN row THEN row[k] ELSE PyNone

(***************************************************************************)
(* Schema for request validation (main.py, lines 35-79).                   *)
(***************************************************************************)
object_types == {"venue", "artist", "attendee", "event", "ticket"}

attributes_schema ==
    [venue |-> {"user_id", "venue_name", "email", "street_address", "city",
                "postcode", "bio"},
     artist |-> {"user_id", "artist_name", "email", "street_address", "city",
                 "postcode", "genres", "spotify_artist_id", "bio"},
     attendee |-> {"user_id", "first_name", "last_name", "email",
                   "street_address", "city", "postcode", "bio"},
     event |-> {"event_id", "venue_id", "event_name", "date_time",
                "total_tickets", "sold_tickets", "artist_ids"},
     ticket |-> {"ticket_id", "event_id", "attendee_id", "price", "status"}]

(***************************************************************************)
(* Inputs: requests.                                                       *)
(***************************************************************************)
\* attribute names a request may carry; "nickname" is in no entity's schema
AttrKeys == {"event_id", "event_name", "nickname"}
\* values submitted by a write request (null included)
WriteValues == {PyStr("a"), PyNone}
\* include-flags submitted by a read request
FlagValues == {PyBool(TRUE), PyBool(FALSE)}
Identifiers == {PyStr(""), PyStr("a")}
ObjectTypeValues == {PyStr("event"), PyStr("ticket")}

\* sequences over S without repetition, of length n
RECURSIVE Arrangements(_, _)
Arrangements(S, n) ==
    IF n = 0 THEN {<<>>}
    ELSE UNION {{Append(p, x) : x \in S \ {p[i] : i \in 1..Len(p)}} :
                p \in Arrangements(S, n - 1)}

\* every dict with at most MaxAttrs keys from AttrKeys and values from V
DictsOver(V) ==
    UNION {UNION {{PyDict([i \in 1..n |-> <<ks[i], vs[i]>>]) :
                      vs \in [1..n -> V]} :
                  ks \in Arrangements(AttrKeys, n)} :
           n \in 0..MaxAttrs}

\* requests holding everything the docstrings ask for
FullRequests(V) ==
    {PyRow([object_type |-> o, identifier |-> i, attributes |-> a]) :
        o \in ObjectTypeValues, i \in Identifiers, a \in DictsOver(V)}

\* requests with a key missing, and a request that is no dict at all
PartialRequests ==
    {PyNone,
     PyRow(<<>>),
     PyRow([object_type |-> PyStr("event"), identifier |-> PyStr("a")]),
     PyRow([object_type |-> PyStr("event"), attributes |-> PyDict(<<>>)]),
     PyRow([identifier |-> PyStr("a"), attributes |-> PyDict(<<>>)])}

WriteRequests == FullRequests(WriteValues) \cup PartialRequests
ReadRequests == FullRequests(FlagValues) \cup PartialRequests
\* the relational reads look at the identifier only
RelationalRequests ==
    {PyRow([identifier |-> i]) : i \in Identifiers \cup {PyNone}}
        \cup {PyNone, PyRow(<<>>)}

IsDict(req) == req.t = "row"
HasKey(req, k) == IsDict(req) /\ k \in DOMAIN req.f

(***************************************************************************)
(* Inputs: what the store answers.                                         *)
(***************************************************************************)
ExcTexts == {"Database error", "exception occurred"}

RowValues == {PyStr("a"), PyStr("b")}
\* rows of the events table; a row may come back without its event_id
\* column, which create_event allows for with .get
Rows ==
    {[event_id |-> i, event_name |-> n] : i \in RowValues, n \in RowValues}
        \cup {[event_name |-> n] : n \in RowValues}

RowLists == UNION {[1..n -> Rows] : n \in 0..MaxRows}

ErrorValues == {PyNone, PyStr("duplicate key")}

\* execute() as create_event and update_event read it: an iterable of two
\* (key, value) pairs, or something that cannot be unpacked that way, or an
\* exception
PairOutcomes ==
    {[kind |-> "raise", text |-> t] : t \in ExcTexts}
        \cup {[kind |-> "not_iterable"]}
        \cup {[kind |-> "pairs", result_key |-> k, result_value |-> PyList(r),
               error_key |-> "error", error_value |-> e] :
                 k \in {"data", "count"}, r \in RowLists, e \in ErrorValues}

\* execute() as the other handlers read it: an object with a data attribute
\* holding one of D, or an object without that attribute, or an exception
ObjectOutcomes(D) ==
    {[kind |-> "raise", text |-> t] : t \in ExcTexts}
        \cup {[kind |-> "object", has_data |-> FALSE, data |-> PyNone]}
        \cup {[kind |-> "object", has_data |-> TRUE, data |-> d] : d \in D}

\* answers of the events table and of the events procedures
EventOutcomes == ObjectOutcomes({PyList(r) : r \in RowLists} \cup {PyNone})

\* rows of the cities table
CityRows == {[city |-> c, country |-> PyStr("a")] : c \in RowValues}
                \cup {[country |-> PyStr("a")]}
CityOutcomes ==
    ObjectOutcomes({PyList(r) : r \in UNION {[1..n -> CityRows] :
                                               n \in 0..MaxRows}}
                     \cup {PyNone})

\* answers of the apply_for_gig procedure
GigOutcomes ==
    ObjectOutcomes({PyBool(TRUE), PyBool(FALSE), PyNone, PyList(<<>>)})

\* str(e) of the error Python raises on a failed unpacking / attribute read
UnpackErrorText == "cannot unpack non-iterable object"
AttributeErrorText == "object has no attribute 'data'"

\* no store call was made
NoOutcome == [kind |-> "none"]

(***************************************************************************)
(* Results of a function: a returned value or a raised exception.          *)
(***************************************************************************)
\* return a, b
Return2(a, b) == [outcome |-> "return", shape |-> "tuple2", first |-> a,
                  second |-> b]
\* return v (one value, not a tuple)
Return1(v) == [outcome |-> "return", shape |-> "single", value |-> v]
\* an exception leaves the function
Raise(e) == [outcome |-> "raise", exc |-> e]

\* {"message": m, "data": d}
Payload(m, d) == [t |-> "payload", message |-> m, data |-> d]

\* a handler's run: what it gave back and the store calls it made
Run(res, cs) == [result |-> res, calls |-> cs]

\* supabase.table(name).<verb>(arg)[.eq(column, value)].execute()
TableCall(name, verb, arg, column, value) ==
    [via |-> "table", name |-> name, verb |-> verb, arg |-> arg,
     eq_column |-> column, eq_value |-> value]

\* request[k]: the exception a subscript raises, if any
SubscriptError(req, k) ==
    IF ~IsDict(req) THEN "TypeError"
    ELSE IF k \notin DOMAIN req.f THEN "KeyError"
    ELSE "none"

(***************************************************************************)
(* The messages and payloads the handlers build.                           *)
(***************************************************************************)
\* variant: the exception text alone, the prefix lost
ExceptionTextOnly(text) == PyStr(text)
\* f"An exception occurred: {str(e)}"
ExceptionOccurred(text) == PyStr("An exception occurred: " \o text)

\* variant: the store's error text dropped from the message
ErrorWithoutText(error_value) == PyStr("An error occurred.")
\* f"An error occurred: {error_value}"
ErrorOccurred(error_value) == PyStr("An error occurred: " \o error_value.s)

\* {"message": f"An API error occurred: {str(e)}", "data": []}
ApiError(text) == Payload("An API error occurred: " \o text, PyList(<<>>))

\* variant: a by-id read that treats zero rows like a relational read does
EventNotFoundAsEmpty ==
    Return2(PyBool(TRUE), Payload("No events found", PyList(<<>>)))
\* return False, {"message": "Event not found", "data": []}
EventNotFound ==
    Return2(PyBool(FALSE), Payload("Event not found", PyList(<<>>)))

\* variant: a missing data attribute read as an empty result
UnexpectedFormatAsEmpty ==
    Return2(PyBool(TRUE), Payload("No events found", PyList(<<>>)))
\* return False, {"message": "Unexpected response format", "data": []}
UnexpectedFormat ==
    Return2(PyBool(FALSE), Payload("Unexpected response format", PyList(<<>>)))

\* variant: deleting nothing reported as a success
DeleteNotFoundAsSuccess ==
    Return2(PyBool(TRUE), PyStr("Event deletion was successful."))
\* return False, "Event not found or already deleted."
DeleteNotFound ==
    Return2(PyBool(FALSE), PyStr("Event not found or already deleted."))

(***************************************************************************)
(* create_event (main.py, lines 85-114)                                    *)
(***************************************************************************)
create_event(req, out) ==
    IF SubscriptError(req, "attributes") # "none"
    THEN Run(Raise(SubscriptError(req, "attributes")), <<>>)
    ELSE
      LET attributes == req.f["attributes"]
          data_to_insert == attributes
          call == TableCall("events", "insert", data_to_insert, "", PyNone)
      IN CASE out.kind = "raise" ->
                Run(Return2(PyNone,
                            ExceptionOccurred(out.text)),
                    <<call>>)
           [] out.kind = "not_iterable" ->
                Run(Return2(PyNone,
                            ExceptionOccurred(UnpackErrorText)),
                    <<call>>)
           [] out.kind = "pairs" ->
                IF out.result_key = "data" /\ Truthy(out.result_value)
                THEN Run(Return2(RowGet(out.result_value.items[1], "event_id"),
                                 PyStr("Event creation was successful.")),
                         <<call>>)
                ELSE IF Truthy(out.error_value)
                THEN Run(Return2(PyNone,
                                 ErrorOccurred(out.error_value)),
                         <<call>>)
                ELSE Run(Return2(PyNone,
                                 PyStr("Unexpected response: No data returned after insert.")),
                         <<call>>)

(***************************************************************************)
(* update_event (main.py, lines 117-161)                                   *)
(***************************************************************************)
\* variant: nothing dropped
KeepAll(d) == d
\* {key: value for key, value in attributes.items() if value is not None}
DropNone(d) ==
    PyDict(SelectSeq(d.items, LAMBDA item : item[2] # PyNone))

\* variant: the confirmation loop runs over the values sent to the store
MismatchesOfSent(attributes, row) ==
    SelectSeq(attributes.items,
              LAMBDA item : /\ item[2] # PyNone
                            /\ item[1] \in DOMAIN row
                            /\ row[item[1]] # item[2])

\* the attributes whose stored value differs from the submitted one, as the
\* confirmation loop meets them
Mismatches(attributes, row) ==
    SelectSeq(attributes.items,
              LAMBDA item : item[1] \in DOMAIN row /\ row[item[1]] # item[2])

\* the three subscripts at the head of update_event, in order
FirstSubscriptError(req, keys) ==
    LET bad == SelectSeq(keys, LAMBDA k : SubscriptError(req, k) # "none")
    IN IF bad = <<>> THEN "none" ELSE SubscriptError(req, bad[1])

update_event(req, out) ==
    LET err == FirstSubscriptError(req, <<"object_type", "identifier",
                                          "attributes">>)
    IN
    IF err # "none" THEN Run(Raise(err), <<>>)
    ELSE
      LET object_type == req.f["object_type"]
          identifier == req.f["identifier"]
          attributes == req.f["attributes"]
          data_to_update == DropNone(attributes)
          call == TableCall(object_type.s \o "s", "update", data_to_update,
                            "event_id", identifier)
      IN IF ~Truthy(data_to_update)
         THEN Run(Return2(PyBool(FALSE),
                          PyStr("No valid attributes provided for update.")),
                  <<>>)
         ELSE
           CASE out.kind = "raise" ->
                  Run(Return2(PyBool(FALSE),
                              ExceptionOccurred(out.text)),
                      <<call>>)
             [] out.kind = "not_iterable" ->
                  Run(Return2(PyBool(FALSE),
                              ExceptionOccurred(UnpackErrorText)),
                      <<call>>)
             [] out.kind = "pairs" ->
                  IF out.result_key = "data" /\ Truthy(out.result_value)
                  THEN LET updated_attributes == out.result_value.items[1]
                           bad == Mismatches(attributes, updated_attributes)
                       IN IF bad # <<>>
                          THEN Run(Return2(PyBool(FALSE),
                                           PyStr("Failed to update "
                                                   \o bad[1][1]
                                                   \o " attribute.")),
                                   <<call>>)
                          ELSE Run(Return2(PyBool(TRUE),
                                           PyStr("Event updated successfully.")),
                                   <<call>>)
                  ELSE IF Truthy(out.error_value)
                  THEN Run(Return2(PyBool(FALSE),
                                   ErrorOccurred(out.error_value)),
                           <<call>>)
                  ELSE Run(Return2(PyBool(FALSE),
                                   PyStr("Unexpected response: No data returned after update.")),
                           <<call>>)

(***************************************************************************)
(* delete_event (main.py, lines 164-192)                                   *)
(***************************************************************************)
delete_event(req, out) ==
    LET err == FirstSubscriptError(req, <<"object_type", "identifier">>)
    IN
    IF err # "none" THEN Run(Raise(err), <<>>)
    ELSE
      LET object_type == req.f["object_type"]
          identifier == req.f["identifier"]
          call == TableCall(object_type.s \o "s", "delete", PyNone,
                            "event_id", identifier)
      IN CASE out.kind = "raise" ->
                Run(Return2(PyBool(FALSE),
                            ExceptionOccurred(out.text)),
                    <<call>>)
           [] out.kind = "object" /\ ~out.has_data ->
                Run(Return2(PyBool(FALSE),
                            ExceptionOccurred(AttributeErrorText)),
                    <<call>>)
           [] out.kind = "object" /\ out.has_data ->
                IF Truthy(out.data)
                THEN Run(Return2(PyBool(TRUE),
                                 PyStr("Event deletion was successful.")),
                         <<call>>)
                ELSE Run(DeleteNotFound,
                         <<call>>)

(***************************************************************************)
(* get_event_info (main.py, lines 195-231)                                 *)
(***************************************************************************)
\* sep.join(strs)
RECURSIVE Join(_, _)
Join(strs, sep) ==
    IF strs = <<>> THEN ""
    ELSE IF Len(strs) = 1 THEN strs[1]
    ELSE strs[1] \o sep \o Join(Tail(strs), sep)

\* [attr for attr, include in attributes.items() if include]
AttributesToFetch(attributes) ==
    LET kept == SelectSeq(attributes.items, LAMBDA item : Truthy(item[2]))
    IN [i \in 1..Len(kept) |-> kept[i][1]]

get_event_info(req, out) ==
    LET err == FirstSubscriptError(req, <<"identifier", "object_type">>)
    IN
    IF err # "none" THEN Run(Raise(err), <<>>)
    ELSE
      LET event_id == req.f["identifier"]
          object_type == req.f["object_type"]
          \* request.get("attributes", {})
          attributes == IF "attributes" \in DOMAIN req.f
                        THEN req.f["attributes"] ELSE PyDict(<<>>)
          attributes_to_fetch == AttributesToFetch(attributes)
          call == TableCall(object_type.s \o "s", "select",
                            PyStr(Join(attributes_to_fetch, ", ")),
                            "event_id", event_id)
      IN CASE out.kind = "raise" ->
                Run(Return2(PyBool(FALSE),
                            ApiError(out.text)),
                    <<call>>)
           [] out.kind = "object" /\ ~out.has_data ->
                Run(Return2(PyBool(FALSE),
                            ApiError(AttributeErrorText)),
                    <<call>>)
           [] out.kind = "object" /\ out.has_data ->
                IF Truthy(out.data)
                THEN Run(Return2(PyBool(TRUE),
                                 Payload("Event found",
                                         PyRow(out.data.items[1]))),
                         <<call>>)
                ELSE Run(EventNotFound,
                         <<call>>)

(***************************************************************************)
(* The relational reads (main.py, lines 234-367): one remote procedure     *)
(* each, and the same normalisation of its answer.                         *)
(***************************************************************************)
\* supabase.rpc(name, {param: value}).execute()
RpcCall(name, param, value) ==
    [via |-> "rpc", name |-> name, verb |-> "rpc", arg |-> param,
     eq_column |-> "", eq_value |-> value]

\* variant: a raising procedure is called a second time before giving up
events_rpc_retry(name, param, value, out) ==
    LET call == RpcCall(name, param, value)
    IN CASE out.kind = "raise" ->
              Run(Return2(PyBool(FALSE),
                          ApiError(out.text)),
                  <<call, call>>)
         [] out.kind = "object" /\ ~out.has_data ->
              Run(UnexpectedFormat,
                  <<call>>)
         [] out.kind = "object" /\ out.has_data ->
              IF Truthy(out.data)
              THEN Run(Return2(PyBool(TRUE),
                               Payload("Events found", out.data)),
                       <<call>>)
              ELSE Run(Return2(PyBool(TRUE),
                               Payload("No events found", PyList(<<>>))),
                       <<call>>)

\* the body of the try block shared by the four reads
events_rpc(name, param, value, out) ==
    LET call == RpcCall(name, param, value)
    IN CASE out.kind = "raise" ->
              Run(Return2(PyBool(FALSE),
                          ApiError(out.text)),
                  <<call>>)
         [] out.kind = "object" /\ ~out.has_data ->
              Run(UnexpectedFormat,
                  <<call>>)
         [] out.kind = "object" /\ out.has_data ->
              IF Truthy(out.data)
              THEN Run(Return2(PyBool(TRUE),
                               Payload("Events found", out.data)),
                       <<call>>)
              ELSE Run(Return2(PyBool(TRUE),
                               Payload("No events found", PyList(<<>>))),
                       <<call>>)

get_events_for_venue(req, out) ==
    IF SubscriptError(req, "identifier") # "none"
    THEN Run(Raise(SubscriptError(req, "identifier")), <<>>)
    ELSE events_rpc("get_events_for_venue", "venue_user_id",
                    req.f["identifier"], out)

get_events_for_artist(req, out) ==
    IF SubscriptError(req, "identifier") # "none"
    THEN Run(Raise(SubscriptError(req, "identifier")), <<>>)
    ELSE events_rpc("get_events_for_artist", "artist_id",
                    req.f["identifier"], out)

get_events_for_attendee(req, out) ==
    IF SubscriptError(req, "identifier") # "none"
    THEN Run(Raise(SubscriptError(req, "identifier")), <<>>)
    ELSE events_rpc("get_events_for_attendee", "_attendee_id",
                    req.f["identifier"], out)

\* str(e) of the AttributeError of None.get
NoGetErrorText == "'NoneType' object has no attribute 'get'"

get_events_in_city(req, out) ==
    IF ~IsDict(req)
    THEN Run(Return1(Payload("Error getting identifier: " \o NoGetErrorText,
                             PyList(<<>>))),
             <<>>)
    ELSE
      \* request.get("identifier", None)
      LET city_name == IF "identifier" \in DOMAIN req.f
                       THEN req.f["identifier"] ELSE PyNone
      IN IF ~Truthy(city_name)
         THEN Run(Return2(PyBool(FALSE),
                          Payload("City name is required", PyList(<<>>))),
                  <<>>)
         ELSE events_rpc("get_events_in_city", "city_name", city_name, out)

(***************************************************************************)
(* get_cities_by_country (main.py, lines 370-400)                          *)
(***************************************************************************)
\* str(e) of the errors request["identifier"] and city["city"] raise
SubscriptErrorText(req, k) ==
    IF ~IsDict(req) THEN "'NoneType' object is not subscriptable"
    ELSE "'" \o k \o "'"

get_cities_by_country(req, out) ==
    IF SubscriptError(req, "identifier") # "none"
    THEN Run(Return2(PyBool(FALSE),
                     ApiError(SubscriptErrorText(req, "identifier"))),
             <<>>)
    ELSE
      LET country_name == req.f["identifier"]
          call == [via |-> "from_", name |-> "cities", verb |-> "select",
                   arg |-> PyStr("*"), eq_column |-> "country",
                   eq_value |-> country_name]
      IN IF ~Truthy(country_name)
         THEN Run(Return2(PyBool(FALSE),
                          Payload("Country name is required", PyList(<<>>))),
                  <<>>)
         ELSE
           CASE out.kind = "raise" ->
                  Run(Return2(PyBool(FALSE),
                              ApiError(out.text)),
                      <<call>>)
             [] out.kind = "object" /\ out.has_data /\ Truthy(out.data) ->
                  LET rows == out.data.items
                  IN IF \E i \in 1..Len(rows) : "city" \notin DOMAIN rows[i]
                     THEN Run(Return2(PyBool(FALSE),
                                      ApiError("'city'")),
                              <<call>>)
                     ELSE Run(Return2(PyBool(TRUE),
                                      Payload("Cities found",
                                              PyList([i \in 1..Len(rows) |->
                                                        rows[i]["city"]]))),
                              <<call>>)
             [] OTHER ->
                  Run(Return2(PyBool(TRUE),
                              Payload("No cities found or unexpected response format",
                                      PyList(<<>>))),
                      <<call>>)

(***************************************************************************)
(* apply_for_gig (main.py, lines 403-423)                                  *)
(***************************************************************************)
\* variant: the two ids change places in the parameters
GigParamsSwapped(event_id, user_id) ==
    [target_event_id |-> user_id, applicant_user_id |-> event_id]

\* the parameters handed to the remote procedure (lines 414-417)
GigParams(event_id, user_id) ==
    [target_event_id |-> event_id, applicant_user_id |-> user_id]

apply_for_gig(event_id, user_id, out) ==
    LET call == [via |-> "rpc", name |-> "apply_for_gig", verb |-> "rpc",
                 arg |-> GigParams(event_id, user_id),
                 eq_column |-> "", eq_value |-> PyNone]
    IN CASE out.kind = "raise" ->
              Run(Return2(PyBool(FALSE),
                          ExceptionOccurred(out.text)),
                  <<call>>)
         [] out.kind = "object" /\ ~out.has_data ->
              Run(Return2(PyBool(FALSE),
                          ExceptionOccurred(AttributeErrorText)),
                  <<call>>)
         [] out.kind = "object" /\ out.has_data ->
              IF Truthy(out.data)
              THEN Run(Return2(PyBool(TRUE),
                               PyStr("Application submitted successfully.")),
                       <<call>>)
              ELSE Run(Return2(PyBool(FALSE),
                               PyStr("Failed to submit application.")),
                       <<call>>)

(***************************************************************************)
(* handle_gig_application (imported from main by test_main.py, lines       *)
(* 20-30, and exercised by TestHandleGigApplication, lines 399-450; main.py *)
(* holds no definition of it).  It is modelled from the four tests: one    *)
(* remote procedure call, the verdict taken from the truth of the          *)
(* response's data, the message from `accept`.  The tests fix neither the  *)
(* procedure's name nor its parameters; the call is recorded under the     *)
(* function's own name with the three arguments.                           *)
(***************************************************************************)
\* variant: the message ignores `accept`
AlwaysAccepted(accept) == PyStr("Application accepted successfully.")

\* the success message (test_main.py, lines 402-426)
HandledMessage(accept) ==
    IF accept THEN PyStr("Application accepted successfully.")
              ELSE PyStr("Application rejected successfully.")

handle_gig_application(event_id, user_id, accept, out) ==
    LET call == [via |-> "rpc", name |-> "handle_gig_application",
                 verb |-> "rpc",
                 arg |-> [target_event_id |-> event_id,
                          applicant_user_id |-> user_id,
                          accept |-> PyBool(accept)],
                 eq_column |-> "", eq_value |-> PyNone]
    IN CASE out.kind = "raise" ->
              Run(Return2(PyBool(FALSE),
                          ExceptionOccurred(out.text)),
                  <<call>>)
         [] out.kind = "object" /\ ~out.has_data ->
              Run(Return2(PyBool(FALSE),
                          ExceptionOccurred(AttributeErrorText)),
                  <<call>>)
         [] out.kind = "object" /\ out.has_data ->
              IF Truthy(out.data)
              THEN Run(Return2(PyBool(TRUE), HandledMessage(accept)),
                       <<call>>)
              ELSE Run(Return2(PyBool(FALSE),
                               PyStr("Failed to handle application.")),
                       <<call>>)

(***************************************************************************)
(* The HTTP entry points (main.py, lines 426-566).                         *)
(***************************************************************************)
\* the parameters each handler is defined with
Parameters ==
    [create_event |-> <<"request">>,
     update_event |-> <<"request">>,
     delete_event |-> <<"request">>,
     get_event_info |-> <<"request">>,
     get_events_for_venue |-> <<"request">>,
     get_events_for_artist |-> <<"request">>,
     get_events_for_attendee |-> <<"request">>,
     get_events_in_city |-> <<"request">>,
     get_cities_by_country |-> <<"request">>,
     apply_for_gig |-> <<"event_id", "user_id">>]

\* name(*args): a call with the wrong number of arguments raises TypeError
\* before the function's body runs
Call(name, args, out) ==
    IF Len(args) # Len(Parameters[name]) THEN Run(Raise("TypeError"), <<>>)
    ELSE CASE name = "create_event" -> create_event(args[1], out)
           [] name = "update_event" -> update_event(args[1], out)
           [] name = "delete_event" -> delete_event(args[1], out)
           [] name = "get_event_info" -> get_event_info(args[1], out)
           [] name = "get_events_for_venue" ->
                get_events_for_venue(args[1], out)
           [] name = "get_events_for_artist" ->
                get_events_for_artist(args[1], out)
           [] name = "get_events_for_attendee" ->
                get_events_for_attendee(args[1], out)
           [] name = "get_events_in_city" -> get_events_in_city(args[1], out)
           [] name = "get_cities_by_country" ->
                get_cities_by_country(args[1], out)
           [] name = "apply_for_gig" -> apply_for_gig(args[1], args[2], out)

\* return jsonify(body), status
Http(body, status) == [outcome |-> "return", body |-> body, status |-> status]

\* an entry point's run: its response, and its handler's result and calls
ApiRun(resp, run) == [response |-> resp, result |-> run.result,
                      calls |-> run.calls]
\* the entry point answered without calling its handler
NoCall == Run([outcome |-> "none"], <<>>)

\* a, b = <what the handler returned>: a 2-tuple gives its components, the
\* two-key dict get_events_in_city may return gives its keys
Unpack2(res) ==
    IF res.shape = "tuple2" THEN <<res.first, res.second>>
    ELSE <<PyStr("message"), PyStr("data")>>

\* success, message = <handler>; 200 with {"message": ...} or 400 with
\* {"error": ...}
RespondTo(run) ==
    IF run.result.outcome = "raise" THEN ApiRun(run.result, run)
    ELSE LET success == Unpack2(run.result)[1]
             message == Unpack2(run.result)[2]
         IN IF Truthy(success)
            THEN ApiRun(Http([message |-> message], 200), run)
            ELSE ApiRun(Http([error |-> message], 400), run)

\* "function" not in request_data or request_data["function"] != wanted
WrongFunction(body, wanted) ==
    "function" \notin DOMAIN body.f \/ body.f["function"] # PyStr(wanted)

\* request_data.get(k)
BodyGet(body, k) == IF k \in DOMAIN body.f THEN body.f[k] ELSE PyNone

api_create_event(body, out) ==
    IF ~IsDict(body) THEN ApiRun(Raise("TypeError"), NoCall)
    ELSE IF WrongFunction(body, "create")
    THEN ApiRun(Http([error |-> PyStr("API only handles create requests")],
                     400), NoCall)
    ELSE LET run == Call("create_event", <<body>>, out)
         IN IF run.result.outcome = "raise" THEN ApiRun(run.result, run)
            ELSE LET event_id == Unpack2(run.result)[1]
                     message == Unpack2(run.result)[2]
                 IN IF Truthy(event_id)
                    THEN ApiRun(Http([message |-> message, data |-> event_id],
                                     200), run)
                    ELSE ApiRun(Http([error |-> message], 400), run)

api_update_event(body, out) ==
    IF ~IsDict(body) THEN ApiRun(Raise("TypeError"), NoCall)
    ELSE IF WrongFunction(body, "update")
    THEN ApiRun(Http([error |-> PyStr("API only handles update requests")],
                     400), NoCall)
    ELSE LET event_id == BodyGet(body, "event_id")
             update_attributes == BodyGet(body, "update_attributes")
         IN RespondTo(Call("update_event", <<event_id, update_attributes>>,
                           out))

api_delete_event(body, out) ==
    IF ~IsDict(body) THEN ApiRun(Raise("TypeError"), NoCall)
    ELSE IF WrongFunction(body, "delete")
    THEN ApiRun(Http([error |-> PyStr("API only handles delete requests")],
                     400), NoCall)
    ELSE RespondTo(Call("delete_event", <<body>>, out))

api_get_event_info(body, out) ==
    IF ~IsDict(body) \/ ~Truthy(body)
    THEN ApiRun(Http([error |-> PyStr("Invalid or missing JSON payload")],
                     400), NoCall)
    ELSE IF WrongFunction(body, "get")
    THEN ApiRun(Http([error |-> PyStr("API only handles get requests")], 400),
                NoCall)
    ELSE LET event_id == BodyGet(body, "event_id")
             attributes == BodyGet(body, "attributes")
             run == Call("get_event_info", <<event_id, attributes>>, out)
         IN IF run.result.outcome = "raise" THEN ApiRun(run.result, run)
            \* "error" in result looks for an element equal to "error"; a
            \* pair of a bool and a payload has none, and is sent as it is
            ELSE ApiRun(Http(PyList(Unpack2(run.result)), 200), run)

api_get_events_for_venue(body, out) ==
    RespondTo(Call("get_events_for_venue", <<body>>, out))

api_get_events_in_city(body, out) ==
    RespondTo(Call("get_events_in_city", <<body>>, out))

api_get_events_for_artist(body, out) ==
    RespondTo(Call("get_events_for_artist", <<body>>, out))

api_get_events_for_attendee(body, out) ==
    RespondTo(Call("get_events_for_attendee", <<body>>, out))

api_get_cities_by_country(body, out) ==
    RespondTo(Call("get_cities_by_country", <<body>>, out))

api_apply_for_gig(body, out) ==
    IF SubscriptError(body, "identifier") # "none"
    THEN ApiRun(Raise(SubscriptError(body, "identifier")), NoCall)
    ELSE IF ~Truthy(body.f["identifier"])
    THEN ApiRun(Http([message |-> PyStr("Missing event_id.")], 400), NoCall)
    ELSE IF SubscriptError(body, "artist_id") # "none"
    THEN ApiRun(Raise(SubscriptError(body, "artist_id")), NoCall)
    ELSE IF ~Truthy(body.f["artist_id"])
    THEN ApiRun(Http([message |-> PyStr("Missing artist_id.")], 400), NoCall)
    ELSE RespondTo(Call("apply_for_gig", <<body.f["identifier"]>>, out))

(***************************************************************************)
(* Inputs: JSON bodies of the entry points.                                *)
(***************************************************************************)
\* the dict d with d[k] = v added
WithKey(d, k, v) ==
    PyRow([x \in DOMAIN d.f \cup {k} |-> IF x = k THEN v ELSE d.f[x]])

\* bodies for an entry point that asks for "function": wanted
Bodies(requests, wanted) ==
    requests
        \cup {WithKey(r, "function", PyStr(g)) :
                r \in {q \in requests : IsDict(q)}, g \in {wanted, "other"}}

\* bodies in the shape api_update_event and api_get_event_info read
KeyedBodies(wanted) ==
    {PyRow([function |-> PyStr(wanted), event_id |-> PyStr("a")]),
     PyRow([function |-> PyStr(wanted), event_id |-> PyStr("a"),
            update_attributes |-> PyDict(<<<<"event_name", PyStr("a")>>>>),
            attributes |-> PyDict(<<<<"event_name", PyBool(TRUE)>>>>)])}

GigBodies ==
    {PyNone, PyRow(<<>>)}
        \cup {PyRow([identifier |-> i]) : i \in Identifiers}
        \cup {PyRow([identifier |-> i, artist_id |-> a]) :
                i \in Identifiers, a \in Identifiers}

(***************************************************************************)
(* The state machine: one invocation at a time.                            *)
(***************************************************************************)
NoResult == [outcome |-> "none"]

\* the two update_event invocations of RaceSpec
Invocations == {"first", "second"}

\* the row of the events table both invocations address
StoredRow == [event_id |-> PyStr("a"), event_name |-> PyStr("a")]

\* an invocation that has not been entered
Idle == [at |-> "idle", request |-> PyNone, answer |-> NoOutcome,
         calls |-> <<>>, result |-> NoResult, overtaken |-> FALSE]

Init ==
    /\ pc = "idle"
    /\ op = "none"
    /\ request = PyNone
    /\ store = NoOutcome
    /\ calls = <<>>
    /\ result = NoResult
    /\ response = NoResult
    /\ table = StoredRow
    /\ inv = [i \in Invocations |-> Idle]

\* the state after handler `name` ran on `req` against a store answering `out`
Finish(name, req, out, run) ==
    /\ pc' = "done"
    /\ op' = name
    /\ request' = req
    /\ store' = IF run.calls = <<>> THEN NoOutcome ELSE out
    /\ calls' = run.calls
    /\ result' = run.result
    /\ response' = NoResult
    /\ UNCHANGED <<table, inv>>

CreateEvent ==
    /\ pc = "idle"
    /\ \E req \in WriteRequests, out \in PairOutcomes :
          Finish("create_event", req, out, create_event(req, out))

UpdateEvent ==
    /\ pc = "idle"
    /\ \E req \in WriteRequests, out \in PairOutcomes :
          Finish("update_event", req, out, update_event(req, out))

DeleteEvent ==
    /\ pc = "idle"
    /\ \E req \in WriteRequests, out \in EventOutcomes :
          Finish("delete_event", req, out, delete_event(req, out))

GetEventInfo ==
    /\ pc = "idle"
    /\ \E req \in ReadRequests, out \in EventOutcomes :
          Finish("get_event_info", req, out, get_event_info(req, out))

GetEventsForVenue ==
    /\ pc = "idle"
    /\ \E req \in RelationalRequests, out \in EventOutcomes :
          Finish("get_events_for_venue", req, out,
                 get_events_for_venue(req, out))

GetEventsForArtist ==
    /\ pc = "idle"
    /\ \E req \in RelationalRequests, out \in EventOutcomes :
          Finish("get_events_for_artist", req, out,
                 get_events_for_artist(req, out))

GetEventsForAttendee ==
    /\ pc = "idle"
    /\ \E req \in RelationalRequests, out \in EventOutcomes :
          Finish("get_events_for_attendee", req, out,
                 get_events_for_attendee(req, out))

GetEventsInCity ==
    /\ pc = "idle"
    /\ \E req \in RelationalRequests, out \in EventOutcomes :
          Finish("get_events_in_city", req, out, get_events_in_city(req, out))

GetCitiesByCountry ==
    /\ pc = "idle"
    /\ \E req \in RelationalRequests, out \in CityOutcomes :
          Finish("get_cities_by_country", req, out,
                 get_cities_by_country(req, out))

ApplyForGig ==
    /\ pc = "idle"
    /\ \E event_id \in Identifiers, user_id \in Identifiers,
          out \in GigOutcomes :
          Finish("apply_for_gig",
                 PyList(<<event_id, user_id>>), out,
                 apply_for_gig(event_id, user_id, out))

HandleGigApplication ==
    /\ pc = "idle"
    /\ \E event_id \in Identifiers, user_id \in Identifiers,
          accept \in BOOLEAN, out \in GigOutcomes :
          Finish("handle_gig_application",
                 PyList(<<event_id, user_id, PyBool(accept)>>), out,
                 handle_gig_application(event_id, user_id, accept, out))

\* the state after entry point `name` ran on `body`
FinishApi(name, body, out, run) ==
    /\ pc' = "done"
    /\ op' = name
    /\ request' = body
    /\ store' = IF run.calls = <<>> THEN NoOutcome ELSE out
    /\ calls' = run.calls
    /\ result' = run.result
    /\ response' = run.response
    /\ UNCHANGED <<table, inv>>

ApiCreateEvent ==
    /\ pc = "idle"
    /\ \E body \in Bodies(WriteRequests, "create"), out \in PairOutcomes :
          FinishApi("api_create_event", body, out,
                    api_create_event(body, out))

ApiUpdateEvent ==
    /\ pc = "idle"
    /\ \E body \in Bodies(WriteRequests, "update") \cup KeyedBodies("update"),
          out \in PairOutcomes :
          FinishApi("api_update_event", body, out,
                    api_update_event(body, out))

ApiDeleteEvent ==
    /\ pc = "idle"
    /\ \E body \in Bodies(WriteRequests, "delete"), out \in EventOutcomes :
          FinishApi("api_delete_event", body, out,
                    api_delete_event(body, out))

ApiGetEventInfo ==
    /\ pc = "idle"
    /\ \E body \in Bodies(ReadRequests, "get") \cup KeyedBodies("get"),
          out \in EventOutcomes :
          FinishApi("api_get_event_info", body, out,
                    api_get_event_info(body, out))

ApiGetEventsForVenue ==
    /\ pc = "idle"
    /\ \E body \in RelationalRequests, out \in EventOutcomes :
          FinishApi("api_get_events_for_venue", body, out,
                    api_get_events_for_venue(body, out))

ApiGetEventsInCity ==
    /\ pc = "idle"
    /\ \E body \in RelationalRequests, out \in EventOutcomes :
          FinishApi("api_get_events_in_city", body, out,
                    api_get_events_in_city(body, out))

ApiGetEventsForArtist ==
    /\ pc = "idle"
    /\ \E body \in RelationalRequests, out \in EventOutcomes :
          FinishApi("api_get_events_for_artist", body, out,
                    api_get_events_for_artist(body, out))

ApiGetEventsForAttendee ==
    /\ pc = "idle"
    /\ \E body \in RelationalRequests, out \in EventOutcomes :
          FinishApi("api_get_events_for_attendee", body, out,
                    api_get_events_for_attendee(body, out))

ApiGetCitiesByCountry ==
    /\ pc = "idle"
    /\ \E body \in RelationalRequests, out \in CityOutcomes :
          FinishApi("api_get_cities_by_country", body, out,
                    api_get_cities_by_country(body, out))

ApiApplyForGig ==
    /\ pc = "idle"
    /\ \E body \in GigBodies, out \in GigOutcomes :
          FinishApi("api_apply_for_gig", body, out,
                    api_apply_for_gig(body, out))

\* the invocation is over; the program keeps nothing of it
Done ==
    /\ pc = "done"
    /\ pc' = "idle"
    /\ op' = "none"
    /\ request' = PyNone
    /\ store' = NoOutcome
    /\ calls' = <<>>
    /\ result' = NoResult
    /\ response' = NoResult
    /\ UNCHANGED <<table, inv>>

\* any entry point or handler may be invoked next
Next ==
    \/ GetEventsInCity
    \/ GetEventsForVenue
    \/ GetEventsForArtist
    \/ GetEventsForAttendee
    \/ GetCitiesByCountry
    \/ GetEventInfo
    \/ CreateEvent
    \/ UpdateEvent
    \/ DeleteEvent
    \/ ApplyForGig
    \/ HandleGigApplication
    \/ ApiUpdateEvent
    \/ ApiCreateEvent
    \/ ApiDeleteEvent
    \/ ApiGetEventInfo
    \/ ApiGetEventsForVenue
    \/ ApiGetEventsInCity
    \/ ApiGetEventsForArtist
    \/ ApiGetEventsForAttendee
    \/ ApiGetCitiesByCountry
    \/ ApiApplyForGig
    \/ Done

Spec == Init /\ [][Next]_vars

(***************************************************************************)
(* Two update_event invocations against one row (main.py, lines 117-161).  *)
(* An invocation is entered with a request, hands its update to the store, *)
(* which applies it to the row in one step and answers with the row as     *)
(* written, and then computes its verdict from the answer it holds.  The   *)
(* other invocation may take its steps in between.                         *)
(***************************************************************************)
\* values the two invocations submit
RaceValues == RowValues \cup {PyNone}

\* requests for the stored row, over the row's own columns
RaceRequests ==
    {PyRow([object_type |-> PyStr("event"), identifier |-> StoredRow.event_id,
            attributes |-> a]) :
        a \in {d \in DictsOver(RaceValues) :
                 DictKeys(d) \subseteq DOMAIN StoredRow}}

\* the store call update_event builds for a request, if it builds one; the
\* call does not depend on what the store will answer
Sent(req) == update_event(req, [kind |-> "raise", text |-> "Database error"]).calls

\* the row after the store applied an update call to it
Written(row, call) ==
    [k \in DOMAIN row |->
        IF k \in DictKeys(call.arg) THEN DictGet(call.arg, k) ELSE row[k]]

\* what execute() gives back for an update call on the row: the rows the
\* filter matched, as written
Answer(row, call) ==
    [kind |-> "pairs", result_key |-> "data",
     result_value |-> IF row[call.eq_column] = call.eq_value
                      THEN PyList(<<Written(row, call)>>)
                      ELSE PyList(<<>>),
     error_key |-> "error", error_value |-> PyNone]

\* variant: the verdict is taken from the row as it is when the check runs
RereadAnswer(i) ==
    IF inv[i].answer.kind = "pairs" /\ Truthy(inv[i].answer.result_value)
    THEN [inv[i].answer EXCEPT !.result_value = PyList(<<table>>)]
    ELSE inv[i].answer

\* result, error = query.execute(): the answer the invocation holds
\* (line 143)
ReturnedTo(i) == inv[i].answer

\* update_event is entered; with nothing to send it returns at once
\* (lines 126-135)
Invoke ==
    \E i \in Invocations, req \in RaceRequests :
        /\ inv[i].at = "idle"
        /\ inv' = [inv EXCEPT ![i] =
                     IF Sent(req) = <<>>
                     THEN [Idle EXCEPT !.at = "returned", !.request = req,
                             !.result = update_event(req, NoOutcome).result]
                     ELSE [Idle EXCEPT !.at = "calling", !.request = req]]
        /\ UNCHANGED <<pc, op, request, store, calls, result, response, table>>

\* the store executes the invocation's update (lines 138-143): the row is
\* written and the answer handed back in one step, or the call raises
StoreUpdate ==
    \E i \in Invocations :
        /\ inv[i].at = "calling"
        /\ LET call == Sent(inv[i].request)[1]
           IN \E raised \in BOOLEAN :
                /\ table' = IF raised \/ table[call.eq_column] # call.eq_value
                            THEN table ELSE Written(table, call)
                /\ inv' = [j \in Invocations |->
                            IF j = i
                            THEN [inv[i] EXCEPT
                                    !.at = "answered",
                                    !.calls = <<call>>,
                                    !.answer =
                                       IF raised
                                       THEN [kind |-> "raise",
                                             text |-> "Database error"]
                                       ELSE Answer(table, call)]
                            ELSE IF inv[j].at = "answered" /\ table' # table
                            THEN [inv[j] EXCEPT !.overtaken = TRUE]
                            ELSE inv[j]]
        /\ UNCHANGED <<pc, op, request, store, calls, result, response>>

\* the invocation computes its verdict from the answer it holds
\* (lines 145-161)
Confirm ==
    \E i \in Invocations :
        /\ inv[i].at = "answered"
        /\ inv' = [inv EXCEPT
                     ![i].at = "returned",
                     ![i].result =
                        update_event(inv[i].request, ReturnedTo(i)).result]
        /\ UNCHANGED <<pc, op, request, store, calls, result, response, table>>

\* the invocation is over
Leave ==
    \E i \in Invocations :
        /\ inv[i].at = "returned"
        /\ inv' = [inv EXCEPT ![i] = Idle]
        /\ UNCHANGED <<pc, op, request, store, calls, result, response, table>>

RaceNext ==
    \/ Invoke
    \/ StoreUpdate
    \/ Confirm
    \/ Leave

RaceSpec == Init /\ [][RaceNext]_vars

(***************************************************************************)
(* Properties.                                                             *)
(***************************************************************************)
WriteHandlers == {"create_event", "update_event"}
RelationalReads == {"get_events_for_venue", "get_events_for_artist",
                    "get_events_for_attendee", "get_events_in_city"}
Handlers == WriteHandlers \cup RelationalReads
                \cup {"delete_event", "get_event_info",
                      "get_cities_by_country", "apply_for_gig"}
EntryPoints == {"api_create_event", "api_update_event", "api_delete_event",
                "api_get_event_info", "api_get_events_for_venue",
                "api_get_events_in_city", "api_get_events_for_artist",
                "api_get_events_for_attendee", "api_get_cities_by_country",
                "api_apply_for_gig"}

\* the request holds the three keys the docstrings name
FullRequest ==
    /\ HasKey(request, "object_type")
    /\ HasKey(request, "identifier")
    /\ HasKey(request, "attributes")

\* the function returned a pair whose first component is falsy
Failed == /\ result.outcome = "return"
          /\ result.shape = "tuple2"
          /\ ~Truthy(result.first)

\* the text of a returned pair's second component
MessageOf(res) ==
    IF res.second.t = "payload" THEN res.second.message ELSE res.second.s

\* the attribute keys of the request that its entity's schema does not list
UnknownKeys ==
    DictKeys(request.f["attributes"])
        \ attributes_schema[request.f["object_type"].s]

\* the store answered with a data attribute holding no rows
ZeroRows == /\ store.kind = "object"
            /\ store.has_data
            /\ ~Truthy(store.data)

\* C1: a write request (create_event, update_event) whose attributes hold a
\* key outside the entity's attributes_schema is rejected, and no store call
\* is made for it.
C1_UnknownKeyRejected ==
    (/\ pc = "done"
     /\ op \in WriteHandlers
     /\ FullRequest
     /\ UnknownKeys # {})
        => (Failed /\ calls = <<>>)

\* C2: zero matching rows is a failure for the by-id read (get_event_info:
\* False, 'Event not found') and a success with an empty list for the four
\* relational reads (True, 'No events found', []).
C2_ZeroRowsByIdVersusRelational ==
    (pc = "done" /\ ZeroRows) =>
        /\ op = "get_event_info" =>
              result = Return2(PyBool(FALSE),
                               Payload("Event not found", PyList(<<>>)))
        /\ op \in RelationalReads =>
              result = Return2(PyBool(TRUE),
                               Payload("No events found", PyList(<<>>)))

\* get_event_info met an empty row list and reported the event as not found
C2_Witness ==
    /\ pc = "done"
    /\ op = "get_event_info"
    /\ ZeroRows
    /\ store.data = PyList(<<>>)
    /\ result.first = PyBool(FALSE)
    /\ result.second.message = "Event not found"

\* every submitted attribute value is null (an empty dict included)
AllNull ==
    \A i \in 1..Len(request.f["attributes"].items) :
        request.f["attributes"].items[i][2] = PyNone

\* C3: update_event with attributes that are empty or all null returns
\* (False, 'No valid attributes provided for update.') and makes no store
\* call.
C3_EmptyUpdateShortCircuits ==
    (/\ pc = "done"
     /\ op = "update_event"
     /\ FullRequest
     /\ AllNull)
        => /\ result = Return2(PyBool(FALSE),
                               PyStr("No valid attributes provided for update."))
           /\ calls = <<>>

\* update_event was given attributes that are all null, and not empty
C3_Witness ==
    /\ pc = "done"
    /\ op = "update_event"
    /\ FullRequest
    /\ AllNull
    /\ Len(request.f["attributes"].items) = 2
    /\ result.second = PyStr("No valid attributes provided for update.")
    /\ calls = <<>>

\* the store client raised during the call
StoreRaised == store.kind = "raise"

\* C4 as stated: for create_event, update_event, delete_event and
\* get_event_info an exception of the store client is caught and the function
\* returns a failure whose message contains 'exception occurred'.
C4_ExceptionMarkerEverywhere ==
    (/\ pc = "done"
     /\ op \in {"create_event", "update_event", "delete_event",
                "get_event_info"}
     /\ StoreRaised)
        => (Failed /\ Contains(MessageOf(result), "exception occurred"))

\* C4 as amended: the exception is caught by all four; create_event returns
\* (None, 'An exception occurred: <text>'), update_event and delete_event
\* return (False, 'An exception occurred: <text>'), and get_event_info
\* returns (False, {message: 'An API error occurred: <text>', data: []}).
C4_ExceptionCaught ==
    (pc = "done" /\ StoreRaised) =>
        /\ op = "create_event" =>
              result = Return2(PyNone,
                               PyStr("An exception occurred: " \o store.text))
        /\ op \in {"update_event", "delete_event"} =>
              result = Return2(PyBool(FALSE),
                               PyStr("An exception occurred: " \o store.text))
        /\ op \in {"create_event", "update_event", "delete_event"} =>
              Contains(MessageOf(result), "exception occurred")
        /\ op = "get_event_info" =>
              result = Return2(PyBool(FALSE),
                               Payload("An API error occurred: " \o store.text,
                                       PyList(<<>>)))

\* the store raised under get_event_info and the message carries no marker
C4_Witness ==
    /\ pc = "done"
    /\ op = "get_event_info"
    /\ StoreRaised
    /\ result.outcome = "return"
    /\ result.second.message = "An API error occurred: Database error"
    /\ ~Contains(result.second.message, "exception occurred")

\* the relational read got as far as its remote procedure
ReadReachesStore ==
    /\ HasKey(request, "identifier")
    /\ op = "get_events_in_city" => Truthy(request.f["identifier"])

\* C5: a relational read's result is decided by the store outcome alone:
\* rows give (True, 'Events found', the rows); no rows give (True, 'No events
\* found', []); no data attribute gives (False, 'Unexpected response format',
\* []); an exception gives (False, 'An API error occurred: <text>', []).
C5_RelationalReadNormalised ==
    (/\ pc = "done"
     /\ op \in RelationalReads
     /\ ReadReachesStore)
        => /\ Len(calls) = 1
           /\ store.kind \in {"raise", "object"}
           /\ store.kind = "raise" =>
                 result = Return2(PyBool(FALSE),
                                  Payload("An API error occurred: "
                                            \o store.text, PyList(<<>>)))
           /\ (store.kind = "object" /\ ~store.has_data) =>
                 result = Return2(PyBool(FALSE),
                                  Payload("Unexpected response format",
                                          PyList(<<>>)))
           /\ (store.kind = "object" /\ store.has_data
                 /\ Truthy(store.data)) =>
                 result = Return2(PyBool(TRUE),
                                  Payload("Events found", store.data))
           /\ (store.kind = "object" /\ store.has_data
                 /\ ~Truthy(store.data)) =>
                 result = Return2(PyBool(TRUE),
                                  Payload("No events found", PyList(<<>>)))

\* get_events_in_city got an answer with no data attribute
C5_Witness ==
    /\ pc = "done"
    /\ op = "get_events_in_city"
    /\ ReadReachesStore
    /\ store.kind = "object"
    /\ ~store.has_data
    /\ result.second.message = "Unexpected response format"

\* the store's result carries a non-empty row list under the key "data"
HasRows == /\ store.kind = "pairs"
           /\ store.result_key = "data"
           /\ Truthy(store.result_value)

\* C6: create_event returns the first row's event_id, not None, with 'Event
\* creation was successful.' when the store returns rows; None with 'An
\* exception occurred: <text>', 'An error occurred: <error>' or 'Unexpected
\* response: No data returned after insert.' when the store raises, reports
\* an error or returns no data; the success message never comes with None.
C6_CreateReturnsId ==
    (/\ pc = "done"
     /\ op = "create_event"
     /\ HasKey(request, "attributes"))
        => /\ result.outcome = "return"
           /\ HasRows =>
                 /\ result.first # PyNone
                 /\ result.first
                      = RowGet(store.result_value.items[1], "event_id")
                 /\ result.second = PyStr("Event creation was successful.")
           /\ StoreRaised =>
                 result = Return2(PyNone,
                                  PyStr("An exception occurred: "
                                          \o store.text))
           /\ (store.kind = "pairs" /\ ~HasRows
                 /\ Truthy(store.error_value)) =>
                 result = Return2(PyNone,
                                  PyStr("An error occurred: "
                                          \o store.error_value.s))
           /\ (store.kind = "pairs" /\ ~HasRows
                 /\ ~Truthy(store.error_value)) =>
                 result = Return2(PyNone,
                                  PyStr("Unexpected response: No data returned after insert."))
           /\ result.second = PyStr("Event creation was successful.") =>
                 result.first # PyNone

\* the store's result carries an explicit non-empty error value
HasError == store.kind = "pairs" /\ Truthy(store.error_value)

\* C7 as stated: whenever the store's result for create_event or update_event
\* carries a non-empty error, the operation fails with 'An error occurred: '
\* followed by the error text, also when the result carries rows as well.
C7_ErrorAlwaysFails ==
    (/\ pc = "done"
     /\ op \in WriteHandlers
     /\ HasError)
        => /\ Failed
           /\ result.second
                = PyStr("An error occurred: " \o store.error_value.s)

\* C7 as amended: the failure with 'An error occurred: <error>' is returned
\* when the result carries a non-empty error and no rows under "data"; when
\* it carries rows too, the rows win: create_event returns the first row's
\* event_id with the success message and update_event goes on to compare the
\* row with the submitted attributes.
C7_ErrorFailsUnlessRows ==
    (/\ pc = "done"
     /\ op \in WriteHandlers
     /\ HasError)
        => /\ ~HasRows =>
                 /\ result.first
                      = (IF op = "create_event" THEN PyNone ELSE PyBool(FALSE))
                 /\ result.second
                      = PyStr("An error occurred: " \o store.error_value.s)
           /\ (HasRows /\ op = "create_event") =>
                 result = Return2(RowGet(store.result_value.items[1],
                                         "event_id"),
                                  PyStr("Event creation was successful."))
           /\ (HasRows /\ op = "update_event") =>
                 \/ result = Return2(PyBool(TRUE),
                                     PyStr("Event updated successfully."))
                 \/ /\ result.first = PyBool(FALSE)
                    /\ \E k \in DictKeys(request.f["attributes"]) :
                          result.second
                            = PyStr("Failed to update " \o k \o " attribute.")

\* create_event got an error and no rows
C7_Witness ==
    /\ pc = "done"
    /\ op = "create_event"
    /\ HasError
    /\ ~HasRows
    /\ result = Return2(PyNone, PyStr("An error occurred: duplicate key"))

\* C8: every handler returns, for every request and every store outcome, a
\* pair whose first component is a boolean.
C8_HandlersReturnBoolPair ==
    (pc = "done" /\ op \in Handlers)
        => /\ result.outcome = "return"
           /\ result.shape = "tuple2"
           /\ result.first.t = "bool"

\* C9: every entry point answers every body and every store outcome with
\* {"message": ...} and 200 or {"error": ...} and 400, 404 or 500; none ends
\* in an uncaught exception, and each calls its handler with the arguments
\* the handler accepts.
C9_EntryPointsRespond ==
    (pc = "done" /\ op \in EntryPoints)
        => /\ response.outcome = "return"
           /\ \/ response.status = 200 /\ "message" \in DOMAIN response.body
              \/ /\ response.status \in {400, 404, 500}
                 /\ "error" \in DOMAIN response.body
           /\ result.outcome # "raise"

\* C10: delete_event returns (True, 'Event deletion was successful.') exactly
\* when the delete result's data is non-empty, (False, 'Event not found or
\* already deleted.') when it is empty, and False with a message containing
\* 'An exception occurred' when the store raises.
C10_DeleteReportsRows ==
    (/\ pc = "done"
     /\ op = "delete_event"
     /\ HasKey(request, "object_type")
     /\ HasKey(request, "identifier"))
        => /\ Len(calls) = 1
           /\ result.outcome = "return"
           /\ result.first = PyBool(TRUE) <=>
                 (store.kind = "object" /\ store.has_data
                    /\ Truthy(store.data))
           /\ result.first = PyBool(TRUE) =>
                 result.second = PyStr("Event deletion was successful.")
           /\ ZeroRows =>
                 result = Return2(PyBool(FALSE),
                                  PyStr("Event not found or already deleted."))
           /\ StoreRaised =>
                 /\ result.first = PyBool(FALSE)
                 /\ Contains(MessageOf(result), "An exception occurred")

\* delete_event matched no row
C10_Witness ==
    /\ pc = "done"
    /\ op = "delete_event"
    /\ ZeroRows
    /\ store.data = PyList(<<>>)
    /\ result = Return2(PyBool(FALSE),
                        PyStr("Event not found or already deleted."))

\* C11: apply_for_gig(event_id, user_id) invokes the remote procedure
\* 'apply_for_gig' once, with target_event_id = event_id and
\* applicant_user_id = user_id, and returns (True, 'Application submitted
\* successfully.') when the response data is truthy, (False, 'Failed to
\* submit application.') when it is empty or None, and (False, 'An exception
\* occurred: <text>') when the store raises.
C11_ApplyForGig ==
    (pc = "done" /\ op = "apply_for_gig")
        => /\ Len(calls) = 1
           /\ calls[1].via = "rpc"
           /\ calls[1].name = "apply_for_gig"
           /\ calls[1].arg.target_event_id = request.items[1]
           /\ calls[1].arg.applicant_user_id = request.items[2]
           /\ (store.kind = "object" /\ store.has_data
                 /\ Truthy(store.data)) =>
                 result = Return2(PyBool(TRUE),
                                  PyStr("Application submitted successfully."))
           /\ (store.kind = "object" /\ store.has_data
                 /\ ~Truthy(store.data)) =>
                 result = Return2(PyBool(FALSE),
                                  PyStr("Failed to submit application."))
           /\ StoreRaised =>
                 result = Return2(PyBool(FALSE),
                                  PyStr("An exception occurred: "
                                          \o store.text))

\* apply_for_gig ran with two different ids and the procedure answered
\* with empty data
C11_Witness ==
    /\ pc = "done"
    /\ op = "apply_for_gig"
    /\ request.items[1] # request.items[2]
    /\ calls[1].arg.target_event_id = request.items[1]
    /\ store.kind = "object"
    /\ store.has_data
    /\ store.data = PyList(<<>>)
    /\ result.second = PyStr("Failed to submit application.")

C13_CitiesMissingDataFails ==
    (/\ pc = "done"
     /\ op = "get_cities_by_country"
     /\ Len(calls) = 1)
        => /\ (store.kind = "object" /\ ~store.has_data) =>
                 /\ result.outcome = "return"
                 /\ result.first = PyBool(FALSE)
                 /\ Contains(MessageOf(result), "Unexpected response format")
           /\ (store.kind = "object" /\ store.has_data
                 /\ ~Truthy(store.data)) =>
                 /\ result.outcome = "return"
                 /\ result.first = PyBool(TRUE)
                 /\ result.second.data = PyList(<<>>)

\* the key-value pairs of a dict, as a set
ItemSet(d) == {d.items[i] : i \in 1..Len(d.items)}

\* C14: the attribute set update_event sends to the store is exactly the
\* submitted attributes with every null-valued key removed: each submitted
\* key with a non-null value is sent with that value, and nothing else is.
C14_UpdateSendsNonNull ==
    (/\ pc = "done"
     /\ op = "update_event"
     /\ Len(calls) = 1)
        => /\ calls[1].verb = "update"
           /\ ItemSet(calls[1].arg)
                = {item \in ItemSet(request.f["attributes"]) :
                     item[2] # PyNone}
           /\ Len(calls[1].arg.items) = Cardinality(ItemSet(calls[1].arg))

\* update_event was given one null and one non-null attribute and sent the
\* non-null one alone
C14_Witness ==
    /\ pc = "done"
    /\ op = "update_event"
    /\ Len(calls) = 1
    /\ Len(request.f["attributes"].items) = 2
    /\ \E item \in ItemSet(request.f["attributes"]) : item[2] = PyNone
    /\ Len(calls[1].arg.items) = 1

\* the submitted attributes whose value differs from the one the returned
\* row holds for the same key
Disagreeing ==
    LET row == store.result_value.items[1]
    IN {item \in ItemSet(request.f["attributes"]) :
          item[1] \in DOMAIN row /\ row[item[1]] # item[2]}

\* C15: when the store returns a row for an update, update_event compares
\* each submitted value against the value the row holds for that key and
\* returns (False, 'Failed to update <key> attribute.'), naming a
\* disagreeing key, if any single submitted field does not match its stored
\* value; it returns (True, 'Event updated successfully.') exactly when
\* every submitted field matches.
C15_UpdateConfirmsRow ==
    (/\ pc = "done"
     /\ op = "update_event"
     /\ Len(calls) = 1
     /\ HasRows)
        => /\ result.outcome = "return"
           /\ Disagreeing = {} <=>
                 result = Return2(PyBool(TRUE),
                                  PyStr("Event updated successfully."))
           /\ Disagreeing # {} =>
                 /\ result.first = PyBool(FALSE)
                 /\ \E item \in Disagreeing :
                       result.second = PyStr("Failed to update " \o item[1]
                                               \o " attribute.")

\* two attributes were submitted, the returned row agrees with one and
\* disagrees with the other, and the update is reported as failed
C15_Witness ==
    /\ pc = "done"
    /\ op = "update_event"
    /\ Len(calls) = 1
    /\ HasRows
    /\ Cardinality(Disagreeing) = 1
    /\ Len(request.f["attributes"].items) = 2
    /\ \A item \in ItemSet(request.f["attributes"]) :
          item[1] \in DOMAIN store.result_value.items[1]
    /\ result.first = PyBool(FALSE)

\* the attribute names a get_event_info request flags for retrieval
Flagged ==
    IF HasKey(request, "attributes")
    THEN {item[1] : item \in {i \in ItemSet(request.f["attributes"]) :
                                 Truthy(i[2])}}
    ELSE {}

\* C16: for get_event_info the projection sent to the store is the set of
\* attribute names whose flag is true; when attributes is missing, empty or
\* all-false the projection falls back to all recognized fields rather than
\* an empty selection.
C16_ProjectionFallsBack ==
    (/\ pc = "done"
     /\ op = "get_event_info"
     /\ Len(calls) = 1)
        => /\ calls[1].verb = "select"
           /\ Flagged # {} =>
                 \A k \in AttrKeys : k \in Flagged <=> Contains(calls[1].arg.s, k)
           /\ Flagged = {} =>
                 /\ calls[1].arg.s # ""
                 /\ \/ calls[1].arg.s = "*"
                    \/ \A k \in attributes_schema.event :
                          Contains(calls[1].arg.s, k)

\* the handler stopped at one of its local validations: an update with
\* nothing to send, a city read without a city name, a cities read without a
\* country name
ValidationFailure ==
    \/ op = "update_event" /\ FullRequest /\ AllNull
    \/ /\ op \in {"get_events_in_city", "get_cities_by_country"}
       /\ IsDict(request)
       /\ ~(HasKey(request, "identifier")
             /\ Truthy(request.f["identifier"]))

\* C17: every invocation issues at most one store call, and a local
\* validation failure (empty update set, missing city name, missing country
\* name) issues none; after a store error, an unexpected result shape or an
\* exception the handler returns with that single call made, none repeated.
C17_AtMostOneStoreCall ==
    pc = "done"
        => /\ Len(calls) <= 1
           /\ ValidationFailure => calls = <<>>
           /\ store.kind # "none" => Len(calls) = 1
           /\ (\/ store.kind \in {"raise", "not_iterable"}
               \/ store.kind = "object" /\ ~store.has_data
               \/ HasError /\ ~HasRows)
                 => /\ Len(calls) = 1
                    /\ result.outcome \in {"return", "raise"}

\* a relational read whose remote procedure raised: one call, a failure
C17_Witness ==
    /\ pc = "done"
    /\ op = "get_events_for_venue"
    /\ StoreRaised
    /\ Len(calls) = 1
    /\ result.first = PyBool(FALSE)

\* the row the store handed back to invocation i
RowBack(i) == inv[i].answer.result_value.items[1]

\* the store handed a row back to invocation i
GotRow(i) ==
    /\ inv[i].answer.kind = "pairs"
    /\ inv[i].answer.result_key = "data"
    /\ Truthy(inv[i].answer.result_value)

\* C18: when two update_event invocations on the same event id interleave
\* at the store, each one issues a single update call and no read, and its
\* verdict is computed only from the row that call returned: it reports
\* success exactly when that row agrees with what it submitted, hence only
\* if the row agrees with every submitted non-null value, whatever the other
\* invocation wrote to the row in between.
C18_VerdictFromOwnUpdate ==
    \A i \in Invocations :
        (inv[i].at = "returned" /\ inv[i].calls # <<>>)
            => /\ Len(inv[i].calls) = 1
               /\ inv[i].calls[1].verb = "update"
               /\ inv[i].calls[1].eq_value = inv[i].request.f["identifier"]
               /\ inv[i].result.first = PyBool(TRUE) <=>
                     /\ GotRow(i)
                     /\ \A item \in ItemSet(inv[i].request.f["attributes"]) :
                           RowBack(i)[item[1]] = item[2]
               /\ inv[i].result.first = PyBool(TRUE) =>
                     \A item \in ItemSet(inv[i].request.f["attributes"]) :
                        item[2] # PyNone => RowBack(i)[item[1]] = item[2]

\* an invocation reported success although the other one's write landed
\* between its update and its check and the row no longer holds its value
C18_Witness ==
    \E i \in Invocations :
        /\ inv[i].at = "returned"
        /\ inv[i].overtaken
        /\ inv[i].result = Return2(PyBool(TRUE),
                                   PyStr("Event updated successfully."))
        /\ \E item \in ItemSet(inv[i].request.f["attributes"]) :
              table[item[1]] # item[2]

\* the update request with its null-valued attribute keys removed
WithoutNulls ==
    PyRow([request.f EXCEPT
             !["attributes"] =
                 PyDict(SelectSeq(@.items, LAMBDA item : item[2] # PyNone))])

\* C19: null-valued attributes submitted to update_event have no effect on
\* the outcome: for the same store response the result is the one the
\* request with the null-valued keys removed gets.
C19_NullsHaveNoEffect ==
    (/\ pc = "done"
     /\ op = "update_event"
     /\ FullRequest)
        => result = update_event(WithoutNulls, store).result

\* C20: update_event, delete_event and get_event_info only ever address the
\* events table: whatever object_type the request carries, the table of the
\* store call is 'events' and the filter is event_id = identifier.
C20_AlwaysEventsTable ==
    (/\ pc = "done"
     /\ op \in {"update_event", "delete_event", "get_event_info"}
     /\ Len(calls) = 1)
        => /\ calls[1].via = "table"
           /\ calls[1].name = "events"
           /\ calls[1].eq_column = "event_id"
           /\ calls[1].eq_value = request.f["identifier"]
====
